---- MODULE Spec2Model ----
(***************************************************************************)
(* A model of src/model.py: the ReXNet backbone wrapper, the SSDLite       *)
(* factory ssdlite224_rexnet_v1, and the ReXNetSSD lightning module        *)
(* (constructor, training_step, validation epoch hooks).                   *)
(*                                                                         *)
(* Conventions.                                                            *)
(*  - A Python Optional is a sequence: << >> is None, <<v>> is the value v.*)
(*  - A Python dict with a fixed key set is a function on strings; a dict  *)
(*    whose insertion order matters is a sequence of <<key, value>> pairs. *)
(*  - Floats are written in thousandths (0.55 is 550).                     *)
(*  - A tensor is a record: its channel count, the image batch it was      *)
(*    computed from, and the modules it went through, in order.            *)
(*  - The libraries (torch, torchvision, mean_average_precision,           *)
(*    lightning) are modelled at the call sites of src/model.py by what    *)
(*    the calls are given and what they hand back.                         *)
(***************************************************************************)
EXTENDS Integers, Sequences, FiniteSets, TLC

\* ------------------------------------------------------------------ bounds
\* Modules in ReXNetV1().features (the stack that line 24 truncates).
NumFeatures == 12
\* Images of the data set; image k carries k - 1 ground-truth boxes.
NumImages == 2
\* Most detections the detector returns for one image.
MaxDets == 1
\* Most images in one batch.
MaxBatch == 2
\* Most images the metric accumulates in one validation epoch.
MaxSamples == 3

\* --------------------------------------------------------- program constants
TruncatedLayers == 9
DefaultNumClasses == 80
InitNumClasses == 20
MetricNumClasses == 3
NumAspectGroups == 6
IouThreshold == 500

None == << >>
Some(v) == <<v>>

\* ---------------------------------------------------------------- helpers
\* dict[key] = value on an insertion-ordered dict.
DictSet(d, k, v) ==
  IF \E i \in 1..Len(d) : d[i][1] = k
  THEN [i \in 1..Len(d) |-> IF d[i][1] = k THEN <<k, v>> ELSE d[i]]
  ELSE Append(d, <<k, v>>)

DictKeys(d) == [i \in 1..Len(d) |-> d[i][1]]
DictValues(d) == [i \in 1..Len(d) |-> d[i][2]]

\* {**a, **b} on dicts with fixed key sets.
DictMerge(a, b) ==
  [k \in (DOMAIN a) \cup (DOMAIN b) |-> IF k \in DOMAIN b THEN b[k] ELSE a[k]]

\* str(i) for a one-digit i.
Str(i) == <<"0", "1", "2", "3", "4", "5", "6", "7", "8", "9">>[i + 1]

\* seq[:-n]
DropLast(s, n) == SubSeq(s, 1, IF Len(s) > n THEN Len(s) - n ELSE 0)

\* bool(v) for the values is_freeze_base_net takes here.
Truthy(v) == v = "True"

\* ------------------------------------------------------ ReXNetSSDBackbone
\* A faulty table for comparison: the fifth tail layer is missing.
FiveTails ==
  << <<128, 672, 1, 1, FALSE, 12>>,
     <<672, 480, 1, 2, FALSE, 12>>,
     <<480, 512, 1, 2, FALSE, 12>>,
     <<512, 256, 1, 2, FALSE, 12>>,
     <<256, 128, 1, 1, FALSE, 12>> >>

\* The (in_c, c, t, s, se, se_ratio) table of the six tail layers.
TailConfigs ==
  << <<128, 672, 1, 1, FALSE, 12>>,
     <<672, 480, 1, 2, FALSE, 12>>,
     <<480, 512, 1, 2, FALSE, 12>>,
     <<512, 256, 1, 2, FALSE, 12>>,
     <<256, 256, 1, 2, FALSE, 12>>,
     <<256, 128, 1, 1, FALSE, 12>> >>

\* A freshly constructed module: trainable, randomly initialised.
LinearBottleneck(cfg) ==
  [in_channels |-> cfg[1], channels |-> cfg[2], t |-> cfg[3], stride |-> cfg[4],
   use_se |-> cfg[5], se_ratio |-> cfg[6],
   requires_grad |-> TRUE, weights |-> "init"]

\* ReXNetV1(): a stack of feature modules and an output module.
ReXNetV1 ==
  [features |-> [i \in 1..NumFeatures |->
                   [idx |-> i - 1, requires_grad |-> TRUE, weights |-> "init"]],
   output |-> [requires_grad |-> TRUE, weights |-> "init"]]

ReXNetSSDBackbone_init(rexnetv1) ==
  [backbone |-> DropLast(rexnetv1.features, TruncatedLayers),
   backbone_tails |-> [i \in 1..Len(TailConfigs) |-> LinearBottleneck(TailConfigs[i])]]

\* The image batch as the input tensor.
Tensor(images) == [ch |-> 3, data |-> images, path |-> << >>]

\* self.backbone(x): the kept feature modules, applied as one Sequential.
ApplyTruncated(kept, x) ==
  [ch |-> TailConfigs[1][1], data |-> x.data,
   path |-> Append(x.path, [module |-> "backbone", idx |-> Len(kept)])]

\* self.backbone_tails[idx](x)
ApplyTail(tails, idx, x) ==
  [ch |-> tails[idx + 1].channels, data |-> x.data,
   path |-> Append(x.path, [module |-> "backbone_tails", idx |-> idx])]

\* A faulty loop for comparison: every tail consumes the truncated backbone's
\* output instead of the previous tail's.
RECURSIVE UnchainedLoop(_, _, _, _)
UnchainedLoop(tails, idx, x, result_dicts) ==
  IF idx >= Len(tails) THEN result_dicts
  ELSE UnchainedLoop(tails, idx + 1, x,
                     DictSet(result_dicts, Str(idx), ApplyTail(tails, idx, x)))

\* The loop of lines 46-48, from index idx on.
RECURSIVE ForwardLoop(_, _, _, _)
ForwardLoop(tails, idx, x, result_dicts) ==
  IF idx >= Len(tails) THEN result_dicts
  ELSE LET y == ApplyTail(tails, idx, x)
       IN ForwardLoop(tails, idx + 1, y, DictSet(result_dicts, Str(idx), y))

Backbone_forward(self, x) ==
  ForwardLoop(self.backbone_tails, 0, ApplyTruncated(self.backbone, x), << >>)

\* ------------------------------------------------- ssdlite224_rexnet_v1
\* for param in backbone.parameters(): param.requires_grad = False
FreezeParams(net) ==
  [features |-> [i \in 1..Len(net.features) |->
                   [net.features[i] EXCEPT !.requires_grad = FALSE]],
   output |-> [net.output EXCEPT !.requires_grad = FALSE]]

\* backbone.load_state_dict(torch.load(path)): values are copied into the
\* existing parameters; requires_grad is not part of a state dict.
LoadStateDict(net) ==
  [features |-> [i \in 1..Len(net.features) |->
                   [net.features[i] EXCEPT !.weights = "loaded"]],
   output |-> [net.output EXCEPT !.weights = "loaded"]]

\* A faulty branch for comparison: the condition is negated.
FreezeInverted(net, is_freeze_base_net) ==
  IF Truthy(is_freeze_base_net) THEN net ELSE FreezeParams(net)

\* Lines 164-169.
FreezeStep(net, is_freeze_base_net) ==
  IF Truthy(is_freeze_base_net) THEN FreezeParams(net) ELSE net

\* Lines 172-173.
LoadStep(net, backbone_weight_path) ==
  IF backbone_weight_path # None THEN LoadStateDict(net) ELSE net

\* DefaultBoxGenerator([[2, 3] for _ in range(6)], min_ratio=0.2, max_ratio=0.95)
AnchorGenerator ==
  [aspect_ratios |-> [i \in 1..NumAspectGroups |-> <<2, 3>>],
   min_ratio |-> 200, max_ratio |-> 950]

\* anchor_generator.num_anchors_per_location()
NumAnchorsPerLocation(gen) ==
  [i \in 1..Len(gen.aspect_ratios) |-> 2 + 2 * Len(gen.aspect_ratios[i])]

\* det_utils.retrieve_out_channels(backbone, size): one forward pass on a
\* zero image, then the channel count of every feature map returned.
RetrieveOutChannels(backbone) ==
  LET feats == DictValues(Backbone_forward(backbone, Tensor(<<0>>)))
  IN [i \in 1..Len(feats) |-> feats[i].ch]

\* The assertion of line 182.
AssertHolds(out_channels, gen) == Len(out_channels) = Len(gen.aspect_ratios)

Defaults ==
  [score_thresh |-> 1, nms_thresh |-> 550, detections_per_img |-> 300,
   topk_candidates |-> 300, image_mean |-> <<500, 500, 500>>,
   image_std |-> <<500, 500, 500>>]

\* A faulty merge for comparison: {**kwargs, **defaults}.
DefaultsWin(kwargs) == DictMerge(kwargs, Defaults)

\* kwargs = {**defaults, **kwargs}
MergeKwargs(kwargs) == DictMerge(Defaults, kwargs)

SSDLiteHead(out_channels, num_anchors, num_classes) ==
  [in_channels |-> out_channels, num_anchors |-> num_anchors,
   num_classes |-> num_classes, requires_grad |-> TRUE]

\* A call that raises hands back the exception instead of a value.
Raised(exception) == [raised |-> exception]
IsRaised(value) == "raised" \in DOMAIN value

\* The arguments the SSD(...) call of lines 195-202 already binds: the
\* instance itself (self, as for any class call), three of the positional
\* ones by SSD's parameter names, and head by keyword (num_classes cannot be
\* among kwargs, the factory binds it). The same name in **kwargs gives the
\* call two values for one argument.
PassedByFactory == {"self", "backbone", "anchor_generator", "size", "head"}

\* Lines 194-202: the merge and the SSD constructor call, which raises
\* TypeError when a merged keyword names an argument already passed.
BuildSSD(backbone, gen, out_channels, num_classes, kwargs) ==
  LET merged == MergeKwargs(kwargs)
  IN IF (DOMAIN merged) \cap PassedByFactory # {}
     THEN Raised("TypeError")
     ELSE [backbone |-> backbone, anchor_generator |-> gen, size |-> <<320, 320>>,
           num_classes |-> num_classes,
           head |-> SSDLiteHead(out_channels, NumAnchorsPerLocation(gen), num_classes),
           config |-> merged]

\* The whole factory, for callers that use its result: the model, or the
\* exception of line 182 or of lines 195-202.
ssdlite224_rexnet_v1(backbone_weight_path, is_freeze_base_net, num_classes, kwargs) ==
  LET net == LoadStep(FreezeStep(ReXNetV1, is_freeze_base_net), backbone_weight_path)
      backbone == ReXNetSSDBackbone_init(net)
      out_channels == RetrieveOutChannels(backbone)
  IN IF ~AssertHolds(out_channels, AnchorGenerator)
     THEN Raised("AssertionError")
     ELSE BuildSSD(backbone, AnchorGenerator, out_channels, num_classes, kwargs)

\* ---------------------------------------------------------------- state
VARIABLES
  \* ssdlite224_rexnet_v1: position, arguments, locals, returned model
  f_pc, f_args, f_net, f_backbone, f_out_channels, f_model,
  \* the ReXNetSSD object and the lightning loop around it
  pc, self_model, metric_fn, self_num_classes,
  \* the last hook that ran: its name, its batch, what the detector handed
  \* back and the feature maps it computed, what was logged and returned,
  \* and the calls made to the detector and to the metric
  last_op, batch, output, features, logged, ret, detector_calls, metric_calls,
  \* history: the (batch, detector output) pairs of the validation steps
  \* since the last on_validation_epoch_start
  seen

facVars == <<f_pc, f_args, f_net, f_backbone, f_out_channels, f_model>>
objVars == <<self_model, metric_fn, self_num_classes>>
hookVars == <<last_op, batch, output, features, logged, ret,
              detector_calls, metric_calls>>
lifeVars == <<pc, objVars, hookVars, seen>>
vars == <<facVars, lifeVars>>

\* ----------------------------------------------------------------- inputs
WeightPaths == {None, Some("rexnetv1_1.0x.pth")}
FreezeArgs == {"True", "False", "None"}
ClassArgs == {3, 20, DefaultNumClasses}
\* Extra keyword arguments a caller may hand to the factory.
KwargsArgs ==
  { << >>,
    [score_thresh |-> 500],
    [nms_thresh |-> 450, detections_per_img |-> 100],
    [iou_thresh |-> 500],
    [image_mean |-> <<485, 456, 406>>, topk_candidates |-> 200],
    [head |-> "my_head"],
    [self |-> 1],
    [size |-> <<224, 224>>, score_thresh |-> 500] }

\* ------------------------------------------ ssdlite224_rexnet_v1, by line
FacInit ==
  /\ f_pc = "idle"
  /\ f_args = None
  /\ f_net = None
  /\ f_backbone = None
  /\ f_out_channels = None
  /\ f_model = None

LifeIdle ==
  /\ pc = "new"
  /\ self_model = None
  /\ metric_fn = None
  /\ self_num_classes = None
  /\ last_op = "none"
  /\ batch = None
  /\ output = None
  /\ features = None
  /\ logged = << >>
  /\ ret = None
  /\ detector_calls = << >>
  /\ metric_calls = << >>
  /\ seen = None

\* The call, and line 163: backbone = ReXNetV1().
FacCall ==
  /\ f_pc \in {"idle", "done", "TypeError"}
  /\ \E path \in WeightPaths, freeze \in FreezeArgs, nc \in ClassArgs,
        kw \in KwargsArgs :
       f_args' = Some([backbone_weight_path |-> path,
                       is_freeze_base_net |-> freeze,
                       num_classes |-> nc, kwargs |-> kw])
  /\ f_net' = Some(ReXNetV1)
  /\ f_backbone' = None
  /\ f_out_channels' = None
  /\ f_model' = None
  /\ f_pc' = "created"
  /\ UNCHANGED lifeVars

\* Lines 164-169.
FacFreeze ==
  /\ f_pc = "created"
  /\ f_net' = Some(FreezeStep(f_net[1], f_args[1].is_freeze_base_net))
  /\ f_pc' = "frozen"
  /\ UNCHANGED <<f_args, f_backbone, f_out_channels, f_model, lifeVars>>

\* Lines 172-173.
FacLoad ==
  /\ f_pc = "frozen"
  /\ f_net' = Some(LoadStep(f_net[1], f_args[1].backbone_weight_path))
  /\ f_pc' = "loaded"
  /\ UNCHANGED <<f_args, f_backbone, f_out_channels, f_model, lifeVars>>

\* Line 174: backbone = ReXNetSSDBackbone(backbone).
FacWrap ==
  /\ f_pc = "loaded"
  /\ f_backbone' = Some(ReXNetSSDBackbone_init(f_net[1]))
  /\ f_net' = None
  /\ f_pc' = "wrapped"
  /\ UNCHANGED <<f_args, f_out_channels, f_model, lifeVars>>

\* Lines 176-182: the anchor generator, the channel probe, the assertion.
FacCheck ==
  /\ f_pc = "wrapped"
  /\ LET out_channels == RetrieveOutChannels(f_backbone[1])
     IN /\ f_out_channels' = Some(out_channels)
        /\ f_pc' = IF AssertHolds(out_channels, AnchorGenerator)
                   THEN "checked" ELSE "AssertionError"
  /\ UNCHANGED <<f_args, f_net, f_backbone, f_model, lifeVars>>

\* Lines 184-204: the model is returned, or the SSD call raises.
FacBuild ==
  /\ f_pc = "checked"
  /\ LET model == BuildSSD(f_backbone[1], AnchorGenerator, f_out_channels[1],
                           f_args[1].num_classes, f_args[1].kwargs)
     IN IF IsRaised(model)
        THEN /\ f_model' = None
             /\ f_pc' = model.raised
        ELSE /\ f_model' = Some(model)
             /\ f_pc' = "done"
  /\ UNCHANGED <<f_args, f_net, f_backbone, f_out_channels, lifeVars>>

InitBuild == FacInit /\ LifeIdle
NextBuild == FacCall \/ FacFreeze \/ FacLoad \/ FacWrap \/ FacCheck \/ FacBuild
SpecBuild == InitBuild /\ [][NextBuild]_vars

\* ------------------------------------------------- claims on the factory
AllGrad(modules, value) ==
  \A i \in 1..Len(modules) : modules[i].requires_grad = value

\* What the SSD constructor of a returned model was given: every keyword
\* argument of the caller with the caller's value, every built-in default
\* the caller did not supply (score_thresh 0.001, nms_thresh 0.55,
\* detections_per_img 300, topk_candidates 300, image_mean and image_std 0.5
\* each) unchanged, nothing else, and the caller's num_classes, which the
\* SSDLiteHead got as well.
WiredAsCalled ==
    LET kw == f_args[1].kwargs
        cfg == f_model[1].config
        names == {"score_thresh", "nms_thresh", "detections_per_img",
                  "topk_candidates", "image_mean", "image_std"}
    IN /\ DOMAIN cfg = names \cup DOMAIN kw
       /\ \A k \in DOMAIN kw : cfg[k] = kw[k]
       /\ "score_thresh" \notin DOMAIN kw => cfg["score_thresh"] = 1
       /\ "nms_thresh" \notin DOMAIN kw => cfg["nms_thresh"] = 550
       /\ "detections_per_img" \notin DOMAIN kw => cfg["detections_per_img"] = 300
       /\ "topk_candidates" \notin DOMAIN kw => cfg["topk_candidates"] = 300
       /\ "image_mean" \notin DOMAIN kw => cfg["image_mean"] = <<500, 500, 500>>
       /\ "image_std" \notin DOMAIN kw => cfg["image_std"] = <<500, 500, 500>>
       /\ f_model[1].num_classes = f_args[1].num_classes
       /\ f_model[1].head.num_classes = f_args[1].num_classes

\* C4 as stated: whatever extra keyword arguments the caller supplied, the
\* factory ends with an SSD constructed from the caller's values over the
\* defaults and the defaults elsewhere.
C4_Original ==
  f_pc \in {"done", "TypeError"} => (f_model # None /\ WiredAsCalled)

\* C4, amended: when no extra keyword argument is named self, backbone,
\* anchor_generator, size or head, the factory returns a model whose SSD
\* constructor was given the caller's values over the defaults, the defaults
\* elsewhere and the caller's num_classes (as was the SSDLiteHead); when one
\* is, the SSD call raises TypeError and no model is returned.
C4_KwargsPrecedence ==
  f_pc \in {"done", "TypeError"} =>
    IF (DOMAIN f_args[1].kwargs) \cap
         {"self", "backbone", "anchor_generator", "size", "head"} = {}
    THEN f_pc = "done" /\ f_model # None /\ WiredAsCalled
    ELSE f_pc = "TypeError" /\ f_model = None

\* A built model whose caller overrode one default and left the others.
C4_Witness ==
  /\ f_pc = "done"
  /\ DOMAIN f_args[1].kwargs = {"nms_thresh", "detections_per_img"}
  /\ f_model[1].config["nms_thresh"] = 450
  /\ f_model[1].config["score_thresh"] = 1

\* C7: the assertion of the factory never fails: the backbone yields six
\* feature maps, one per tail layer, the anchor generator holds six
\* aspect-ratio groups, and the head of the built model has one branch and
\* one anchor count per feature map.
C7_AssertionHolds ==
  /\ f_pc # "AssertionError"
  /\ f_out_channels # None =>
       /\ Len(f_out_channels[1]) = 6
       /\ Len(f_backbone[1].backbone_tails) = 6
       /\ Len(AnchorGenerator.aspect_ratios) = 6
  /\ f_pc = "done" =>
       /\ Len(f_model[1].head.in_channels) = 6
       /\ Len(f_model[1].head.num_anchors) = 6

\* The assertion was evaluated and the model built.
C7_Witness ==
  /\ f_pc = "done"
  /\ f_out_channels = Some(<<672, 480, 512, 256, 256, 128>>)

\* C8: with a truthy is_freeze_base_net every parameter of the ReXNetV1
\* network is frozen before the weights are loaded and the kept ones stay
\* frozen in the returned model, whose tail layers and head are trainable;
\* with a falsy one (False or None) every parameter keeps the requires_grad
\* it was constructed with, True.
C8_FreezeFrame ==
  f_args # None =>
    LET base == ~Truthy(f_args[1].is_freeze_base_net)
    IN /\ f_pc \in {"frozen", "loaded"} =>
            /\ AllGrad(f_net[1].features, base)
            /\ f_net[1].output.requires_grad = base
       /\ f_pc = "created" =>
            /\ AllGrad(f_net[1].features, TRUE)
            /\ f_net[1].output.requires_grad
       /\ f_backbone # None =>
            /\ AllGrad(f_backbone[1].backbone, base)
            /\ AllGrad(f_backbone[1].backbone_tails, TRUE)
       /\ f_pc = "done" =>
            /\ AllGrad(f_model[1].backbone.backbone, base)
            /\ AllGrad(f_model[1].backbone.backbone_tails, TRUE)
            /\ f_model[1].head.requires_grad

\* A frozen backbone with loaded weights in a returned model that keeps
\* some of its modules.
C8_Witness ==
  /\ f_pc = "done"
  /\ Truthy(f_args[1].is_freeze_base_net)
  /\ f_args[1].backbone_weight_path # None
  /\ Len(f_model[1].backbone.backbone) > 0
  /\ f_model[1].backbone.backbone[1].weights = "loaded"
  /\ ~f_model[1].backbone.backbone[1].requires_grad

\* --------------------------------------------------- the metric library
\* MetricBuilder.build_evaluation_metric("map_2d", async_mode=True,
\* num_classes=n): an empty accumulator. The async adapter queues its calls
\* in order, so add, value and reset take effect in call order.
BuildMetric(num_classes) == [num_classes |-> num_classes, samples |-> << >>]
MetricAdd(m, preds, gt) == [m EXCEPT !.samples = Append(@, <<preds, gt>>)]
MetricReset(m) == [m EXCEPT !.samples = << >>]
\* value(iou_thresholds=t): a dict whose 'mAP' entry is computed from the
\* accumulated samples; the computation itself is the library's.
MetricValue(m, iou) ==
  [mAP |-> [over |-> m.samples, iou |-> iou, num_classes |-> m.num_classes]]

\* ------------------------------------------------------------- ReXNetSSD
\* Lines 53-65: the object's fields, or the exception of the factory call
\* of lines 56-60.
ReXNetSSD_init(rexnet_ssd_model, num_classes) ==
  LET default == rexnet_ssd_model = None /\ num_classes = None
      built == ssdlite224_rexnet_v1(None, "None", InitNumClasses, << >>)
  IN IF default /\ IsRaised(built)
     THEN built
     ELSE [model |-> IF default THEN Some(built) ELSE rexnet_ssd_model,
           metric_fn |-> Some(BuildMetric(MetricNumClasses)),
           num_classes |-> num_classes]

\* The parameters ssdlite224_rexnet_v1 names; the first two have no default.
FactoryParams == {"backbone_weight_path", "is_freeze_base_net", "num_classes"}

\* ssdlite224_rexnet_v1(**kwargs), line 153: a missing required argument
\* raises TypeError, a missing num_classes takes the default, and every
\* other keyword lands in the factory's own **kwargs.
CallFactory(kwargs) ==
  IF ~({"backbone_weight_path", "is_freeze_base_net"} \subseteq DOMAIN kwargs)
  THEN Raised("TypeError")
  ELSE ssdlite224_rexnet_v1(
         kwargs["backbone_weight_path"], kwargs["is_freeze_base_net"],
         IF "num_classes" \in DOMAIN kwargs THEN kwargs["num_classes"]
         ELSE DefaultNumClasses,
         [k \in (DOMAIN kwargs) \ FactoryParams |-> kwargs[k]])

\* Lines 150-154; kwargs is the dict of keyword arguments. Line 154 reads
\* kwargs['num_classes'] and raises KeyError when the caller left it out.
ssdlite224_rexnet_v1_lightning(kwargs) ==
  LET model == CallFactory(kwargs)
  IN IF IsRaised(model) THEN model
     ELSE IF "num_classes" \notin DOMAIN kwargs THEN Raised("KeyError")
     ELSE ReXNetSSD_init(Some(model), Some(kwargs["num_classes"]))

\* The length of the shortest of the samples.
ShortestLen(samples) ==
  CHOOSE n \in {Len(samples[i]) : i \in 1..Len(samples)} :
    \A i \in 1..Len(samples) : n <= Len(samples[i])

\* tuple(zip(*batch)): one tuple per position of the samples, up to the
\* shortest sample; the empty tuple for an empty batch.
collate_batch(samples) ==
  IF Len(samples) = 0 THEN << >>
  ELSE [p \in 1..ShortestLen(samples) |->
          [i \in 1..Len(samples) |-> samples[i][p]]]

\* image_batch, annotations_batch = batch (lines 89 and 102) raises
\* ValueError unless the batch has exactly two parts.
Unpacks(b) == Len(b) = 2

\* sum(...) over the values of a dict: a left fold from 0.
RECURSIVE SumFrom(_, _, _)
SumFrom(values, i, acc) ==
  IF i > Len(values) THEN acc ELSE SumFrom(values, i + 1, acc + values[i])

\* A faulty sum for comparison: the first term is dropped.
PySumSkipFirst(values) == SumFrom(values, 2, 0)

PySum(values) == SumFrom(values, 1, 0)

DictGet(d, k) == d[CHOOSE i \in 1..Len(d) : d[i][1] = k][2]

\* What training_step does with the loss dict the detector returned:
\* lines 91-96.
training_step(loss_dict) ==
  LET loss == PySum(DictValues(loss_dict))
  IN [logged |-> << <<"train_loss_bbox_regression", DictGet(loss_dict, "bbox_regression")>>,
                    <<"train_loss_classification", DictGet(loss_dict, "classification")>>,
                    <<"train_loss", loss>> >>,
      ret |-> loss]

\* np.expand_dims(v, 1)
ExpandDims(v) == [j \in 1..Len(v) |-> <<v[j]>>]
\* np.zeros((n, m))
Zeros(n, m) == [j \in 1..n |-> [c \in 1..m |-> 0]]
\* np.concatenate([a, b, c], 1) on arrays with the same number of rows.
Concatenate(a, b, c) == [j \in 1..Len(a) |-> a[j] \o b[j] \o c[j]]

\* A faulty layout for comparison: score before label.
PredsScoreFirst(single_result) ==
  Concatenate(single_result.boxes, ExpandDims(single_result.scores),
              ExpandDims(single_result.labels))

\* Lines 124-129.
Preds(single_result) ==
  Concatenate(single_result.boxes, ExpandDims(single_result.labels),
              ExpandDims(single_result.scores))

\* Lines 133-136.
Gt(gt_single_boxes, gt_single_labels) ==
  Concatenate(gt_single_boxes, ExpandDims(gt_single_labels),
              Zeros(Len(gt_single_boxes), 2))

\* A faulty loop for comparison: every result is paired with the ground
\* truth of the first image.
RECURSIVE FirstGtLoop(_, _, _, _, _)
FirstGtLoop(idx, batched_result, gt_boxes, gt_labels, calls) ==
  IF idx >= Len(batched_result) THEN calls
  ELSE FirstGtLoop(idx + 1, batched_result, gt_boxes, gt_labels,
         Append(calls, [op |-> "add",
                        preds |-> Preds(batched_result[idx + 1]),
                        gt |-> Gt(gt_boxes[1], gt_labels[1])]))

\* The loop of lines 119-139 from index idx on: the metric calls it makes.
RECURSIVE AddLoop(_, _, _, _, _)
AddLoop(idx, batched_result, gt_boxes, gt_labels, calls) ==
  IF idx >= Len(batched_result) THEN calls
  ELSE AddLoop(idx + 1, batched_result, gt_boxes, gt_labels,
         Append(calls, [op |-> "add",
                        preds |-> Preds(batched_result[idx + 1]),
                        gt |-> Gt(gt_boxes[idx + 1], gt_labels[idx + 1])]))

\* The metric after a sequence of calls.
RECURSIVE MetricAfter(_, _, _)
MetricAfter(m, calls, i) ==
  IF i > Len(calls) THEN m
  ELSE MetricAfter(IF calls[i].op = "add"
                   THEN MetricAdd(m, calls[i].preds, calls[i].gt) ELSE m,
                   calls, i + 1)

\* What validation_step does once the detector has answered: lines 104-105
\* and 119-143.
validation_step(metric, annotations_batch, batched_result) ==
  LET gt_boxes == [i \in 1..Len(annotations_batch) |-> annotations_batch[i].boxes]
      gt_labels == [i \in 1..Len(annotations_batch) |-> annotations_batch[i].labels]
      adds == AddLoop(0, batched_result, gt_boxes, gt_labels, << >>)
      after == MetricAfter(metric, adds, 1)
      valid_mean_ap == MetricValue(after, IouThreshold).mAP
  IN [metric |-> after,
      calls |-> Append(adds, [op |-> "value", iou |-> IouThreshold]),
      logged |-> << <<"valid_mean_ap", valid_mean_ap>> >>,
      ret |-> valid_mean_ap]

\* A faulty hook for comparison: the metric is not reset.
NoReset(metric) == metric

\* Lines 98-99.
on_validation_epoch_start(metric) == MetricReset(metric)

\* Lines 145-147.
on_validation_epoch_end(metric) ==
  << <<"Validation mAP: %1.4f", MetricValue(metric, IouThreshold).mAP>> >>

\* ------------------------------------------------- data and the detector
\* The class count of the task at hand: the detector's, and the data set's.
TaskClasses == IF self_model = None THEN InitNumClasses ELSE self_model[1].num_classes

\* The annotation of image k: k - 1 boxes, labelled from the top class down.
Annotation(k, nc) ==
  [boxes |-> [j \in 1..(k - 1) |-> <<j, j, j + k, j + k>>],
   labels |-> [j \in 1..(k - 1) |-> nc - j]]

\* The batches a data loader yields: 1..MaxBatch (image, annotation) pairs,
\* collated.
Batches(nc) ==
  UNION { { collate_batch([i \in 1..n |-> <<ids[i], Annotation(ids[i], nc)>>]) :
              ids \in [1..n -> 1..NumImages] } : n \in 1..MaxBatch }

\* The detector in eval mode returns one result per image: d detections,
\* best score first.
Detection(d) ==
  [boxes |-> [j \in 1..d |-> <<j, j, j + 2, j + 2>>],
   scores |-> [j \in 1..d |-> 1000 - 100 * j],
   labels |-> [j \in 1..d |-> j]]

DetectorOutputs(n) ==
  { [i \in 1..n |-> Detection(ds[i])] : ds \in [1..n -> 0..MaxDets] }

\* Loss values the detector in training mode may return.
LossSamples == {0, 2, 7}

\* Arguments of the direct constructor, and of the lightning factory.
ModelArgs == {None, Some(ssdlite224_rexnet_v1(None, "False", InitNumClasses, << >>))}
NumClassesArgs == {None, Some(InitNumClasses)}
LightningKwargs ==
  { [backbone_weight_path |-> Some("rexnetv1_1.0x.pth"), is_freeze_base_net |-> "True",
     num_classes |-> 3, score_thresh |-> 500],
    [backbone_weight_path |-> None, is_freeze_base_net |-> "False",
     num_classes |-> 20, head |-> "my_head"],
    [backbone_weight_path |-> None, is_freeze_base_net |-> "False"],
    [num_classes |-> 20] }

\* ------------------------------------------------------------ lightning
SetHook(op, b, out, feats, lg, r, dcalls, mcalls) ==
  /\ last_op' = op
  /\ batch' = b
  /\ output' = out
  /\ features' = feats
  /\ logged' = lg
  /\ ret' = r
  /\ detector_calls' = dcalls
  /\ metric_calls' = mcalls

SetObject(self) ==
  /\ self_model' = self.model
  /\ metric_fn' = self.metric_fn
  /\ self_num_classes' = self.num_classes

\* The outcome of a construction: the object, or no object and the
\* exception, kept in ret.
Constructed(result) ==
  /\ IF IsRaised(result)
     THEN /\ pc' = "construct_raised"
          /\ ret' = Some(result)
          /\ UNCHANGED objVars
     ELSE /\ pc' = "ready"
          /\ ret' = None
          /\ SetObject(result)
  /\ last_op' = "__init__"
  /\ UNCHANGED <<batch, output, features, logged, detector_calls,
                 metric_calls, seen, facVars>>

\* ReXNetSSD(rexnet_ssd_model, num_classes)
ConstructDirect ==
  /\ pc = "new"
  /\ \E m \in ModelArgs, nc \in NumClassesArgs : Constructed(ReXNetSSD_init(m, nc))

\* ssdlite224_rexnet_v1_lightning(**kwargs)
ConstructLightning ==
  /\ pc = "new"
  /\ \E kwargs \in LightningKwargs :
       Constructed(ssdlite224_rexnet_v1_lightning(kwargs))

\* training_step(training_batch, batch_idx). A batch that does not unpack
\* raises ValueError at line 89 and self.model(...) on None raises TypeError
\* at line 90, both before anything is logged.
TrainingStep ==
  /\ pc = "ready"
  /\ \E b \in Batches(TaskClasses), l1 \in LossSamples, l2 \in LossSamples :
       IF ~Unpacks(b) \/ self_model = None
       THEN /\ pc' = "raised"
            /\ SetHook("training_step", Some(b), None, None, << >>, None,
                       << >>, << >>)
       ELSE LET loss_dict == << <<"bbox_regression", l1>>, <<"classification", l2>> >>
                feats == Backbone_forward(self_model[1].backbone, Tensor(b[1]))
                step == training_step(loss_dict)
            IN /\ pc' = "ready"
               /\ SetHook("training_step", Some(b), Some(loss_dict), Some(feats),
                          step.logged, Some(step.ret),
                          << [images |-> b[1], targets |-> Some(b[2])] >>, << >>)
  /\ UNCHANGED <<objVars, seen, facVars>>

\* on_validation_epoch_start()
OnValidationEpochStart ==
  /\ pc = "ready"
  /\ metric_fn' = Some(on_validation_epoch_start(metric_fn[1]))
  /\ seen' = Some(<< >>)
  /\ pc' = "validating"
  /\ SetHook("on_validation_epoch_start", None, None, None, << >>, None,
             << >>, << [op |-> "reset"] >>)
  /\ UNCHANGED <<self_model, self_num_classes, facVars>>

\* validation_step(val_batch, batch_idx). A batch that does not unpack
\* raises ValueError at line 102 and self.model(...) on None raises TypeError
\* at line 117, both before the metric is touched.
ValidationStep ==
  /\ pc = "validating"
  /\ \E b \in Batches(TaskClasses) :
       /\ Len(metric_fn[1].samples) + Len(b[1]) <= MaxSamples
       /\ IF ~Unpacks(b) \/ self_model = None
          THEN /\ pc' = "raised"
               /\ SetHook("validation_step", Some(b), None, None, << >>, None,
                          << >>, << >>)
               /\ UNCHANGED <<metric_fn, seen>>
          ELSE \E batched_result \in DetectorOutputs(Len(b[1])) :
                 LET feats == Backbone_forward(self_model[1].backbone, Tensor(b[1]))
                     step == validation_step(metric_fn[1], b[2], batched_result)
                 IN /\ pc' = "validating"
                    /\ metric_fn' = Some(step.metric)
                    /\ seen' = Some(Append(seen[1],
                                 [batch |-> b, result |-> batched_result]))
                    /\ SetHook("validation_step", Some(b), Some(batched_result),
                               Some(feats), step.logged, Some(step.ret),
                               << [images |-> b[1], targets |-> None] >>,
                               step.calls)
  /\ UNCHANGED <<self_model, self_num_classes, facVars>>

\* on_validation_epoch_end()
OnValidationEpochEnd ==
  /\ pc = "validating"
  /\ pc' = "ready"
  /\ SetHook("on_validation_epoch_end", None, None, None,
             on_validation_epoch_end(metric_fn[1]), None,
             << >>, << [op |-> "value", iou |-> IouThreshold] >>)
  /\ UNCHANGED <<objVars, seen, facVars>>

InitLife == FacInit /\ LifeIdle

\* Two views of the loop. training_step neither reads nor writes the
\* metric, and the validation hooks do not depend on what the last
\* training step logged, so training and validation are explored apart.

NextTrain == ConstructDirect \/ ConstructLightning \/ TrainingStep
SpecTrain == InitLife /\ [][NextTrain]_vars

NextVal ==
  \/ ConstructDirect
  \/ ConstructLightning
  \/ OnValidationEpochStart
  \/ ValidationStep
  \/ OnValidationEpochEnd
SpecVal == InitLife /\ [][NextVal]_vars

\* ----------------------------------------------- claims on the lifecycle
\* The claims on a step speak of steps that return, pc being "ready" after
\* training_step and "validating" after validation_step; a step on an object
\* without a detector raises and leaves pc = "raised" (see C9).
\* C1: a training_step that returns has called the detector exactly once,
\* with the batch's images and annotations; what it returns, and logs as
\* train_loss, is the sum of the two values of the loss dict the detector
\* returned; bbox_regression and classification are logged as returned.
C1_TrainingLoss ==
  (last_op = "training_step" /\ pc = "ready") =>
    LET loss_dict == output[1]
        total == loss_dict[1][2] + loss_dict[2][2]
    IN /\ Len(loss_dict) = 2
       /\ loss_dict[1][1] = "bbox_regression"
       /\ loss_dict[2][1] = "classification"
       /\ detector_calls = << [images |-> batch[1][1], targets |-> Some(batch[1][2])] >>
       /\ ret = Some(total)
       /\ logged = << <<"train_loss_bbox_regression", loss_dict[1][2]>>,
                      <<"train_loss_classification", loss_dict[2][2]>>,
                      <<"train_loss", total>> >>

\* A training step on two images whose two loss terms are both non-zero.
C1_Witness ==
  /\ last_op = "training_step"
  /\ pc = "ready"
  /\ Len(batch[1][1]) = 2
  /\ output = Some(<< <<"bbox_regression", 7>>, <<"classification", 2>> >>)
  /\ ret = Some(9)

\* One (predictions, ground truth) sample per image of the first k entries
\* of the history, in order.
RECURSIVE ExpectedSamples(_, _)
ExpectedSamples(hist, k) ==
  IF k = 0 THEN << >>
  ELSE ExpectedSamples(hist, k - 1) \o
       [i \in 1..Len(hist[k].batch[1]) |->
          << Preds(hist[k].result[i]),
             Gt(hist[k].batch[2][i].boxes, hist[k].batch[2][i].labels) >>]

\* C2: once a validation epoch has started, the metric holds exactly one
\* sample per image of the validation batches seen since the most recent
\* on_validation_epoch_start, in order; the value a validation_step returns
\* is computed over the batches of the epoch so far, and the value
\* on_validation_epoch_end logs over all batches of the epoch.
C2_EpochAccumulation ==
  seen # None =>
    LET expected == ExpectedSamples(seen[1], Len(seen[1]))
    IN /\ metric_fn[1].samples = expected
       /\ (last_op = "validation_step" /\ pc = "validating") =>
            /\ Len(ret) = 1
            /\ ret[1].over = expected
            /\ logged = << <<"valid_mean_ap", ret[1]>> >>
       /\ last_op = "on_validation_epoch_end" =>
            /\ Len(logged) = 1
            /\ logged[1][2].over = expected

\* The second validation_step of an epoch, three images in all.
C2_Witness ==
  /\ seen # None
  /\ Len(seen[1]) = 2
  /\ last_op = "validation_step"
  /\ pc = "validating"
  /\ Len(metric_fn[1].samples) = 3
  /\ Len(ret[1].over) = 3

\* C3: the feature maps the backbone returns are a dict with the keys "0" to
\* "5" in that order; the entry of key str(i) is the output of tail i, which
\* consumed the output of tail i - 1 (tail 0: of the truncated backbone, run
\* once on the input).
C3_ForwardChain ==
  features # None =>
    LET d == features[1]
        tails == self_model[1].backbone.backbone_tails
        x0 == ApplyTruncated(self_model[1].backbone.backbone, Tensor(batch[1][1]))
    IN /\ DictKeys(d) = <<"0", "1", "2", "3", "4", "5">>
       /\ \A i \in 0..5 :
            /\ d[i + 1][2] = ApplyTail(tails, i, IF i = 0 THEN x0 ELSE d[i][2])
            /\ Len(d[i + 1][2].path) = i + 2
            /\ d[i + 1][2].path[1].module = "backbone"
            /\ \A j \in 0..i :
                 d[i + 1][2].path[j + 2] = [module |-> "backbone_tails", idx |-> j]
       /\ [i \in 1..6 |-> d[i][2].ch] = <<672, 480, 512, 256, 256, 128>>

\* The feature maps of a detector call on a batch of two images.
C3_Witness ==
  /\ features # None
  /\ Len(features[1]) = 6
  /\ features[1][6][2].data = <<2, 1>>
  /\ Len(features[1][6][2].path) = 7

\* C5: a validation_step over n per-image results makes exactly n add calls
\* to the metric, in index order, the i-th with the predictions of result i
\* and the ground truth of annotation i of the same batch, and reads the
\* metric value only after them.
C5_AddPairing ==
  (last_op = "validation_step" /\ pc = "validating") =>
    LET n == Len(output[1])
    IN /\ Len(metric_calls) = n + 1
       /\ \A i \in 1..n :
            /\ metric_calls[i].op = "add"
            /\ metric_calls[i].preds = Preds(output[1][i])
            /\ metric_calls[i].gt = Gt(batch[1][2][i].boxes, batch[1][2][i].labels)
       /\ metric_calls[n + 1].op = "value"

\* A batch of two images with different ground truth and different
\* detections.
C5_Witness ==
  /\ last_op = "validation_step"
  /\ pc = "validating"
  /\ Len(output[1]) = 2
  /\ batch[1][2][1] # batch[1][2][2]
  /\ output[1][1] # output[1][2]
  /\ Len(metric_calls) = 3

\* C6: every prediction row handed to the metric is
\* [x1, y1, x2, y2, label, score], one row per detection of the image, and
\* every ground-truth row is [x1, y1, x2, y2, label, 0, 0], one row per
\* ground-truth box of the image.
C6_RowLayout ==
  (last_op = "validation_step" /\ pc = "validating") =>
    \A i \in 1..Len(output[1]) :
      LET preds == metric_calls[i].preds
          gt == metric_calls[i].gt
          res == output[1][i]
          ann == batch[1][2][i]
      IN /\ Len(preds) = Len(res.boxes)
         /\ \A j \in 1..Len(preds) :
              /\ Len(preds[j]) = 6
              /\ SubSeq(preds[j], 1, 4) = res.boxes[j]
              /\ preds[j][5] = res.labels[j]
              /\ preds[j][6] = res.scores[j]
         /\ Len(gt) = Len(ann.boxes)
         /\ \A j \in 1..Len(gt) :
              /\ Len(gt[j]) = 7
              /\ SubSeq(gt[j], 1, 4) = ann.boxes[j]
              /\ gt[j][5] = ann.labels[j]
              /\ gt[j][6] = 0
              /\ gt[j][7] = 0

\* An image with a detection and a ground-truth box went to the metric.
C6_Witness ==
  /\ last_op = "validation_step"
  /\ pc = "validating"
  /\ Len(metric_calls[1].preds) = 1
  /\ Len(metric_calls[1].gt) = 1
  /\ metric_calls[1].preds[1][6] = 900

\* C9: whatever the constructor was given, a constructed ReXNetSSD (one
\* whose construction did not raise) holds a detector in self.model, so no
\* hook fails for want of one.
C9_UsableDetector ==
  pc \notin {"new", "construct_raised"} => (self_model # None /\ pc # "raised")

\* C10: the metric of a ReXNetSSD that wraps a detector counts the classes
\* the detector does, and every label added to it, predicted or ground
\* truth, is a class of the metric.
C10_MetricClasses ==
  (pc # "new" /\ self_model # None) =>
    /\ metric_fn[1].num_classes = self_model[1].num_classes
    /\ \A i \in 1..Len(metric_fn[1].samples) :
         LET preds == metric_fn[1].samples[i][1]
             gt == metric_fn[1].samples[i][2]
         IN /\ \A j \in 1..Len(preds) : preds[j][5] \in 0..(metric_fn[1].num_classes - 1)
            /\ \A j \in 1..Len(gt) : gt[j][5] \in 0..(metric_fn[1].num_classes - 1)

====
